---- MODULE Spec2Model ----
(***************************************************************************)
(* Product Content Generator API (app.py).                                 *)
(*                                                                         *)
(* A FastAPI application with two routes, GET / and POST /generate, served *)
(* by one uvicorn process (one event loop).  POST /generate validates the  *)
(* JSON body against ProductRequest, then the handler runs the LangChain   *)
(* chain  prompt | llm | parser  inside a try/except that turns every      *)
(* exception into HTTPException(500).                                      *)
(*                                                                         *)
(* JSON values are tagged records; a prompt is the list of rendered chat   *)
(* messages, each message content being the list of its text pieces in     *)
(* order (the template's literal pieces and the substituted values).       *)
(***************************************************************************)
EXTENDS Naturals, Sequences, FiniteSets

VARIABLES
    promptCfg,  \* module-level prompt, built at import time (lines 143-152)
    loop,       \* request whose task occupies the event-loop thread, 0 = none
    pc,         \* position of each request
    req,        \* the HTTP request on each connection
    prompt,     \* chain: output of the prompt step
    modelOut,   \* chain: outcome of llm.invoke
    result,     \* chain: output of the parser step (ProductContent)
    exc,        \* exception caught by the handler's except clause
    response,   \* HTTP response of each request
    stages,     \* chain steps started for each request, in order
    renderLog   \* every (title, body_html, prompt) the prompt step has produced

vars == <<promptCfg, loop, pc, req, prompt, modelOut, result, exc, response, stages, renderLog>>

-----------------------------------------------------------------------------
(* Bounds *)

NumConns == 2      \* concurrent client connections
MaxBullets == 6    \* longest bulletpoints list the external model returns

(* Program constants *)

MaxItems == 5      \* Field(max_length=5) on ProductContent.bulletpoints

Conns == 1..NumConns

-----------------------------------------------------------------------------
(* JSON values *)

Str(s) == [t |-> "str", s |-> s]
Num == [t |-> "num"]
Null == [t |-> "null"]
Absent == [t |-> "absent"]
List(items) == [t |-> "list", items |-> items]

IsStr(v) == v.t = "str"

-----------------------------------------------------------------------------
(* Requests a client can send *)

Titles == {"", "Turmeric Cream"}
BodyHtmls == {"", "<p>Vitamin C</p>"}

HealthRequest == [method |-> "GET", path |-> "/"]

GenerateRequest(body) == [method |-> "POST", path |-> "/generate", body |-> body]

MalformedBody == [json |-> FALSE]

JsonBody(title, body_html) == [json |-> TRUE, title |-> title, body_html |-> body_html]

RequestBodies ==
    {MalformedBody}
      \cup {JsonBody(Str(t), Str(b)) : t \in Titles, b \in BodyHtmls}
      \cup {JsonBody(Absent, Str("")), JsonBody(Str("Turmeric Cream"), Absent)}

Requests == {HealthRequest} \cup {GenerateRequest(b) : b \in RequestBodies}

IsGenerate(rq) == rq.method = "POST" /\ rq.path = "/generate"

\* Variant: body_html treated as optional.
ProductRequestValid_Lenient(body) ==
    /\ body.json
    /\ IsStr(body.title)

\* ProductRequest: title and body_html are required strings, nothing else.
ProductRequestValid(body) ==
    /\ body.json
    /\ IsStr(body.title)
    /\ IsStr(body.body_html)

-----------------------------------------------------------------------------
(* Prompt configuration and rendering *)

SystemText == "You are an expert e-commerce copywriter. ..."
LLM_INSTRUCTIONS == "You are an expert e-commerce copywriter specializing in ..."
FormatInstructions == "The output should be formatted as a JSON instance ..."

\* prompt.partial(instructions=..., format_instructions=...)
StartupPromptCfg ==
    [system |-> SystemText,
     instructions |-> LLM_INSTRUCTIONS,
     format_instructions |-> FormatInstructions]

\* ChatPromptTemplate.format_messages: simple substitution into the two
\* message templates.
FormatMessages(cfg, title, body_html) ==
    << [role |-> "system", content |-> <<cfg.system>>],
       [role |-> "human",
        content |-> << cfg.instructions,
                       "\n\nPRODUCT DATA:\nTitle: ", title,
                       "\nBody HTML: ", body_html,
                       "\n\nIMPORTANT: Only use information from ...\n\n",
                       cfg.format_instructions >>] >>

NoPrompt == <<>>

-----------------------------------------------------------------------------
(* What the external model can do *)

ProviderErrors == {"Connection error.", "rate_limit_error"}

\* List lengths the model returns: empty, and from the limit up to MaxBullets.
BulletLens == {0} \cup (MaxItems..MaxBullets)

BulletLists ==
    {List([i \in 1..n |-> Str("Contains vitamin C")]) : n \in BulletLens}
      \cup {List(<<Num>>)}

NameValues == {Absent, Str(""), Str("Turmeric Cream")}
DescriptionValues == {Absent, Str(""), Str("A cream.")}
BulletValues == {Absent, Null} \cup BulletLists

NotJson == [json |-> FALSE]

JsonObject(dn, dd, bp) ==
    [json |-> TRUE, displayName |-> dn, displayDescription |-> dd, bulletpoints |-> bp]

ModelTexts ==
    {NotJson}
      \cup {JsonObject(dn, dd, bp) :
              dn \in NameValues, dd \in DescriptionValues, bp \in BulletValues}

NoOutcome == [kind |-> "none"]
Returned(text) == [kind |-> "text", text |-> text]
Raised(msg) == [kind |-> "error", msg |-> msg]

-----------------------------------------------------------------------------
(* Output parser: PydanticOutputParser(pydantic_object=ProductContent) *)

\* Variant: the list is type-checked but its length is not limited.
BulletsValid_NoLimit(bp) ==
    \/ bp.t \in {"absent", "null"}
    \/ /\ bp.t = "list"
       /\ \A i \in 1..Len(bp.items) : IsStr(bp.items[i])

\* bulletpoints: Optional[List[str]] = Field(default=None, max_length=5)
BulletsValid(bp) ==
    \/ bp.t \in {"absent", "null"}
    \/ /\ bp.t = "list"
       /\ \A i \in 1..Len(bp.items) : IsStr(bp.items[i])
       /\ Len(bp.items) <= MaxItems

\* Variant: displayDescription not required.
ProductContentValid_NoRequired(obj) ==
    /\ IsStr(obj.displayName)
    /\ BulletsValid(obj.bulletpoints)

\* displayName and displayDescription: str = Field(...)
ProductContentValid(obj) ==
    /\ IsStr(obj.displayName)
    /\ IsStr(obj.displayDescription)
    /\ BulletsValid(obj.bulletpoints)

\* Variant: displayDescription filled from displayName.
ProductContent_Swapped(obj) ==
    [displayName |-> obj.displayName,
     displayDescription |-> obj.displayName,
     bulletpoints |-> IF obj.bulletpoints.t = "absent" THEN Null ELSE obj.bulletpoints]

\* The validated model instance; a missing bulletpoints takes its default None.
ProductContent(obj) ==
    [displayName |-> obj.displayName,
     displayDescription |-> obj.displayDescription,
     bulletpoints |-> IF obj.bulletpoints.t = "absent" THEN Null ELSE obj.bulletpoints]

NoResult == [none |-> TRUE]
NoExc == [raised |-> FALSE]
Exception(msg) == [raised |-> TRUE, msg |-> msg]

\* parser.parse(text): the ProductContent, or the OutputParserException raised.
ParseOutput(text) ==
    IF ~text.json
    THEN [ok |-> FALSE, exc |-> Exception("Invalid json output")]
    ELSE IF ~ProductContentValid(text)
    THEN [ok |-> FALSE, exc |-> Exception("Failed to parse ProductContent from completion")]
    ELSE [ok |-> TRUE, value |-> ProductContent(text)]

-----------------------------------------------------------------------------
(* Responses *)

NoResponse == [status |-> 0]

HealthPayload ==
    [message |-> "Product Content Generator API", status |-> "running"]

\* FastAPI's answer to a body that fails ProductRequest validation.
UnprocessableResponse == [status |-> 422, body |-> [detail |-> <<"validation error">>]]

ErrorPrefix == "Error generating product content: "

\* Variant: provider failures reported as 502, other failures as 500.
ErrorResponse_ByStage(e) ==
    [status |-> IF e.msg \in ProviderErrors THEN 502 ELSE 500,
     body |-> [detail |-> <<ErrorPrefix, e.msg>>]]

\* HTTPException(status_code=500, detail=f"Error generating product content: {str(e)}")
ErrorResponse(e) == [status |-> 500, body |-> [detail |-> <<ErrorPrefix, e.msg>>]]

OkResponse(body) == [status |-> 200, body |-> body]

-----------------------------------------------------------------------------
(* State machine *)

Init ==
    /\ promptCfg = StartupPromptCfg
    /\ loop = 0
    /\ pc = [r \in Conns |-> "idle"]
    /\ req = [r \in Conns |-> HealthRequest]
    /\ prompt = [r \in Conns |-> NoPrompt]
    /\ modelOut = [r \in Conns |-> NoOutcome]
    /\ result = [r \in Conns |-> NoResult]
    /\ exc = [r \in Conns |-> NoExc]
    /\ response = [r \in Conns |-> NoResponse]
    /\ stages = [r \in Conns |-> <<>>]
    /\ renderLog = {}

\* A client sends a request; it waits on its connection until the event loop
\* gets to it.
Send(r) ==
    /\ pc[r] = "idle"
    /\ \E rq \in Requests : req' = [req EXCEPT ![r] = rq]
    /\ pc' = [pc EXCEPT ![r] = "sent"]
    /\ UNCHANGED <<promptCfg, loop, prompt, modelOut, result, exc, response, stages, renderLog>>

\* GET /
root(r) ==
    /\ loop = 0
    /\ pc[r] = "sent"
    /\ ~IsGenerate(req[r])
    /\ loop' = r
    /\ response' = [response EXCEPT ![r] = OkResponse(HealthPayload)]
    /\ pc' = [pc EXCEPT ![r] = "responded"]
    /\ UNCHANGED <<promptCfg, req, prompt, modelOut, result, exc, stages, renderLog>>

\* POST /generate with a body that is not a ProductRequest: FastAPI answers
\* without calling the handler.
RejectRequest(r) ==
    /\ loop = 0
    /\ pc[r] = "sent"
    /\ IsGenerate(req[r])
    /\ ~ProductRequestValid(req[r].body)
    /\ loop' = r
    /\ response' = [response EXCEPT ![r] = UnprocessableResponse]
    /\ pc' = [pc EXCEPT ![r] = "responded"]
    /\ UNCHANGED <<promptCfg, req, prompt, modelOut, result, exc, stages, renderLog>>

\* POST /generate with a valid body: generate_product_content is entered.
EnterHandler(r) ==
    /\ loop = 0
    /\ pc[r] = "sent"
    /\ IsGenerate(req[r])
    /\ ProductRequestValid(req[r].body)
    /\ loop' = r
    /\ pc' = [pc EXCEPT ![r] = "handler"]
    /\ UNCHANGED <<promptCfg, req, prompt, modelOut, result, exc, response, stages, renderLog>>

\* Variant: the handler rebinds the module-level prompt with the request's
\* title (prompt = prompt.partial(instructions=...)) before rendering.
RenderPrompt_Mutating(r) ==
    /\ pc[r] = "handler"
    /\ stages' = [stages EXCEPT ![r] = Append(@, "prompt")]
    /\ promptCfg' = [promptCfg EXCEPT !.instructions = req[r].body.title.s]
    /\ LET title == req[r].body.title.s
           body_html == req[r].body.body_html.s
           messages == FormatMessages(promptCfg', title, body_html)
       IN  /\ prompt' = [prompt EXCEPT ![r] = messages]
           /\ renderLog' = renderLog \cup
                 {[title |-> title, body_html |-> body_html, prompt |-> messages]}
    /\ pc' = [pc EXCEPT ![r] = "rendered"]
    /\ UNCHANGED <<loop, req, modelOut, result, exc, response>>

\* chain step 1: prompt
RenderPrompt(r) ==
    /\ pc[r] = "handler"
    /\ stages' = [stages EXCEPT ![r] = Append(@, "prompt")]
    /\ LET title == req[r].body.title.s
           body_html == req[r].body.body_html.s
           messages == FormatMessages(promptCfg, title, body_html)
       IN  /\ prompt' = [prompt EXCEPT ![r] = messages]
           /\ renderLog' = renderLog \cup
                 {[title |-> title, body_html |-> body_html, prompt |-> messages]}
    /\ pc' = [pc EXCEPT ![r] = "rendered"]
    /\ UNCHANGED <<promptCfg, loop, req, modelOut, result, exc, response>>

\* Variant: the model is called whether or not the prompt step has run.
CallModel_Unrendered(r) ==
    /\ pc[r] \in {"handler", "rendered"}
    /\ stages' = [stages EXCEPT ![r] = Append(@, "llm")]
    /\ pc' = [pc EXCEPT ![r] = "waiting"]
    /\ UNCHANGED <<promptCfg, loop, req, prompt, modelOut, result, exc, response, renderLog>>

\* chain step 2: llm.invoke sends the prompt and blocks until the provider
\* answers; the handler is a coroutine and the call is synchronous, so the
\* event-loop thread stays with this request.
CallModel(r) ==
    /\ pc[r] = "rendered"
    /\ stages' = [stages EXCEPT ![r] = Append(@, "llm")]
    /\ pc' = [pc EXCEPT ![r] = "waiting"]
    /\ UNCHANGED <<promptCfg, loop, req, prompt, modelOut, result, exc, response, renderLog>>

\* llm.invoke returns the provider's text.
ModelReturns(r) ==
    /\ pc[r] = "waiting"
    /\ \E text \in ModelTexts : modelOut' = [modelOut EXCEPT ![r] = Returned(text)]
    /\ pc' = [pc EXCEPT ![r] = "generated"]
    /\ UNCHANGED <<promptCfg, loop, req, prompt, result, exc, response, stages, renderLog>>

\* Variant: a provider failure sends the request back to the model call.
ModelFails_Retry(r) ==
    /\ pc[r] = "waiting"
    /\ pc' = [pc EXCEPT ![r] = "rendered"]
    /\ UNCHANGED <<promptCfg, loop, req, prompt, modelOut, result, exc, response, stages, renderLog>>

\* llm.invoke raises (network failure, provider error, rate limit).
ModelFails(r) ==
    /\ pc[r] = "waiting"
    /\ \E e \in ProviderErrors :
         /\ modelOut' = [modelOut EXCEPT ![r] = Raised(e)]
         /\ exc' = [exc EXCEPT ![r] = Exception(e)]
    /\ pc' = [pc EXCEPT ![r] = "failed"]
    /\ UNCHANGED <<promptCfg, loop, req, prompt, result, response, stages, renderLog>>

\* chain step 3: parser
ParseModelOutput(r) ==
    /\ pc[r] = "generated"
    /\ stages' = [stages EXCEPT ![r] = Append(@, "parser")]
    /\ LET p == ParseOutput(modelOut[r].text)
       IN  IF p.ok
           THEN /\ result' = [result EXCEPT ![r] = p.value]
                /\ pc' = [pc EXCEPT ![r] = "parsed"]
                /\ exc' = exc
           ELSE /\ exc' = [exc EXCEPT ![r] = p.exc]
                /\ pc' = [pc EXCEPT ![r] = "failed"]
                /\ result' = result
    /\ UNCHANGED <<promptCfg, loop, req, prompt, modelOut, response, renderLog>>

\* return result
ReturnResult(r) ==
    /\ pc[r] = "parsed"
    /\ response' = [response EXCEPT ![r] = OkResponse(result[r])]
    /\ pc' = [pc EXCEPT ![r] = "responded"]
    /\ UNCHANGED <<promptCfg, loop, req, prompt, modelOut, result, exc, stages, renderLog>>

\* except Exception as e: raise HTTPException(...)
HandleException(r) ==
    /\ pc[r] = "failed"
    /\ response' = [response EXCEPT ![r] = ErrorResponse(exc[r])]
    /\ pc' = [pc EXCEPT ![r] = "responded"]
    /\ UNCHANGED <<promptCfg, loop, req, prompt, modelOut, result, exc, stages, renderLog>>

\* The response is written, the request's objects are dropped and the event
\* loop takes the next task.
Complete(r) ==
    /\ pc[r] = "responded"
    /\ loop' = 0
    /\ pc' = [pc EXCEPT ![r] = "idle"]
    /\ req' = [req EXCEPT ![r] = HealthRequest]
    /\ prompt' = [prompt EXCEPT ![r] = NoPrompt]
    /\ modelOut' = [modelOut EXCEPT ![r] = NoOutcome]
    /\ result' = [result EXCEPT ![r] = NoResult]
    /\ exc' = [exc EXCEPT ![r] = NoExc]
    /\ response' = [response EXCEPT ![r] = NoResponse]
    /\ stages' = [stages EXCEPT ![r] = <<>>]
    /\ UNCHANGED <<promptCfg, renderLog>>

\* The event loop picks up a waiting request.
Dispatch(r) == root(r) \/ RejectRequest(r) \/ EnterHandler(r)

Next ==
    \E r \in Conns :
        \/ Send(r)
        \/ root(r)
        \/ RejectRequest(r)
        \/ EnterHandler(r)
        \/ RenderPrompt(r)
        \/ CallModel(r)
        \/ ModelReturns(r)
        \/ ModelFails(r)
        \/ ParseModelOutput(r)
        \/ ReturnResult(r)
        \/ HandleException(r)
        \/ Complete(r)

Spec == Init /\ [][Next]_vars

-----------------------------------------------------------------------------
(* Properties *)

Responded(r) == pc[r] = "responded"

\* The request reached the handler: a POST /generate whose body validated.
ValidGenerate(r) == IsGenerate(req[r]) /\ ProductRequestValid(req[r].body)

IsTextList(v) == v.t = "list" /\ \A i \in 1..Len(v.items) : IsStr(v.items[i])

\* A complete ProductContent body: exactly the three fields, with their types.
WellShaped(body) ==
    /\ DOMAIN body = {"displayName", "displayDescription", "bulletpoints"}
    /\ IsStr(body.displayName)
    /\ IsStr(body.displayDescription)
    /\ (body.bulletpoints = Null \/ IsTextList(body.bulletpoints))

IsError500(resp) ==
    /\ resp.status = 500
    /\ DOMAIN resp.body = {"detail"}

\* C1: every validated POST /generate, whatever the external model did, ends
\* either in a 200 whose body is a complete ProductContent or in a 500 error;
\* never in a 200 with a missing field or another shape.
C1_CompleteOr500 ==
    \A r \in Conns :
        (Responded(r) /\ ValidGenerate(r)) =>
            \/ response[r].status = 200 /\ WellShaped(response[r].body)
            \/ IsError500(response[r])

\* A 200 with a non-empty bullet list, after the model returned valid JSON.
C1_Witness ==
    \E r \in Conns :
        /\ Responded(r) /\ ValidGenerate(r)
        /\ response[r].status = 200
        /\ response[r].body.bulletpoints.t = "list"
        /\ Len(response[r].body.bulletpoints.items) = MaxItems

ModelBullets(r) == modelOut[r].text.bulletpoints

ModelReturnedLongList(r) ==
    /\ modelOut[r].kind = "text"
    /\ modelOut[r].text.json
    /\ ModelBullets(r).t = "list"
    /\ Len(ModelBullets(r).items) > MaxItems

\* C2: in every 200 of POST /generate bulletpoints is null or a list of at
\* most 5 entries, and a model text with more than 5 entries ends in a 500.
C2_AtMostFiveBullets ==
    \A r \in Conns :
        (Responded(r) /\ IsGenerate(req[r])) =>
            /\ response[r].status = 200 =>
                 \/ response[r].body.bulletpoints = Null
                 \/ /\ response[r].body.bulletpoints.t = "list"
                    /\ Len(response[r].body.bulletpoints.items) <= MaxItems
            /\ ModelReturnedLongList(r) => response[r].status = 500

\* The model returned six well-typed entries with both text fields present,
\* and the request ended in a 500.
C2_Witness ==
    \E r \in Conns :
        /\ Responded(r)
        /\ ModelReturnedLongList(r)
        /\ IsStr(modelOut[r].text.displayName)
        /\ IsStr(modelOut[r].text.displayDescription)
        /\ response[r].status = 500

\* C3: whichever chain step raised, the client gets status 500 with detail
\* 'Error generating product content: ' followed by the error's text, and no
\* result; status and body shape do not depend on the failing step.
C3_UniformError ==
    \A r \in Conns :
        (Responded(r) /\ exc[r].raised) =>
            /\ response[r] =
                 [status |-> 500,
                  body |-> [detail |-> <<"Error generating product content: ", exc[r].msg>>]]
            /\ result[r] = NoResult

\* A failure of the parser step, answered with the 500.
C3_Witness ==
    \E r \in Conns :
        /\ Responded(r)
        /\ exc[r].raised
        /\ stages[r] = <<"prompt", "llm", "parser">>
        /\ response[r].status = 500

TitleMissingOrEmpty(body) == body.json /\ body.title \in {Absent, Str("")}

\* C4: a request whose title is missing or empty is rejected with a
\* validation error and never reaches prompt rendering or the model; an empty
\* body_html with a non-empty title is accepted.
C4_EmptyTitleRejected ==
    \A r \in Conns :
        /\ (pc[r] # "idle" /\ IsGenerate(req[r]) /\ TitleMissingOrEmpty(req[r].body)) =>
              /\ pc[r] \in {"sent", "responded"}
              /\ stages[r] = <<>>
              /\ Responded(r) => response[r].status = 422
        /\ (Responded(r) /\ IsGenerate(req[r])
              /\ req[r].body = JsonBody(Str("Turmeric Cream"), Str(""))) =>
              response[r].status # 422

\* C5: while request a waits for the external model, a request b that has
\* arrived can be picked up by the server.
C5_NonBlocking ==
    \A a, b \in Conns :
        (a # b /\ pc[a] = "waiting" /\ pc[b] = "sent") => ENABLED Dispatch(b)

ModelCalls(r) == Cardinality({i \in DOMAIN stages[r] : stages[r][i] = "llm"})

MalformedOrIncomplete(body) ==
    \/ ~body.json
    \/ body.title = Absent
    \/ body.body_html = Absent

\* C7: a POST /generate whose body is malformed JSON or fails the request
\* schema gets a 4xx; the handler, the chain and the model are never run.
C7_InvalidBodyNeverHandled ==
    \A r \in Conns :
        (pc[r] # "idle" /\ IsGenerate(req[r]) /\ MalformedOrIncomplete(req[r].body)) =>
            /\ pc[r] \in {"sent", "responded"}
            /\ stages[r] = <<>>
            /\ prompt[r] = NoPrompt
            /\ modelOut[r] = NoOutcome
            /\ Responded(r) => (response[r].status >= 400 /\ response[r].status < 500)

\* Malformed JSON answered with the 422.
C7_Witness ==
    \E r \in Conns :
        /\ Responded(r)
        /\ req[r] = GenerateRequest(MalformedBody)
        /\ response[r].status = 422

EmptyBodyRequest(r) ==
    /\ ValidGenerate(r)
    /\ req[r].body.title.s # ""
    /\ req[r].body.body_html.s = ""

\* C8 as stated: with a non-empty title and an empty body_html every 200 has
\* a non-empty displayName and displayDescription, whatever the model returned.
C8_NonEmptyFields ==
    \A r \in Conns :
        (Responded(r) /\ EmptyBodyRequest(r) /\ response[r].status = 200) =>
            /\ response[r].body.displayName.s # ""
            /\ response[r].body.displayDescription.s # ""

\* C8 amended: with a non-empty title and an empty body_html the request ends
\* in a 200 or a 500, and a 200 carries displayName and displayDescription as
\* text, exactly the strings the model returned (empty when it returned empty).
C8_TextFieldsAsReturned ==
    \A r \in Conns :
        (Responded(r) /\ EmptyBodyRequest(r)) =>
            /\ response[r].status \in {200, 500}
            /\ response[r].status = 200 =>
                 /\ IsStr(response[r].body.displayName)
                 /\ IsStr(response[r].body.displayDescription)
                 /\ response[r].body.displayName = modelOut[r].text.displayName
                 /\ response[r].body.displayDescription = modelOut[r].text.displayDescription

\* The model returned an empty name with a description, and the 200 carries both.
C8_Witness ==
    \E r \in Conns :
        /\ Responded(r) /\ EmptyBodyRequest(r)
        /\ response[r].status = 200
        /\ response[r].body.displayName = Str("")
        /\ response[r].body.displayDescription = Str("A cream.")

\* C9: the prompt configuration stays as built at start, and any two
\* renderings of the same (title, body_html) gave the identical prompt.
C9_RenderDeterministic ==
    /\ promptCfg = StartupPromptCfg
    /\ \A e1, e2 \in renderLog :
         (e1.title = e2.title /\ e1.body_html = e2.body_html) => e1.prompt = e2.prompt
    /\ \A r \in Conns :
         prompt[r] # NoPrompt =>
            [title |-> req[r].body.title.s,
             body_html |-> req[r].body.body_html.s,
             prompt |-> prompt[r]] \in renderLog

\* Every input has been rendered at least once, requests for other inputs were
\* handled since, and the handler is entered again for an input already in
\* the log while another request is in flight.
C9_Witness ==
    \E r, s \in Conns :
        /\ r # s
        /\ pc[s] = "sent"
        /\ pc[r] = "handler"
        /\ Cardinality(renderLog) = Cardinality(Titles) * Cardinality(BodyHtmls)
        /\ \E e \in renderLog :
             /\ e.title = req[r].body.title.s
             /\ e.body_html = req[r].body.body_html.s

ChainOrder == <<"prompt", "llm", "parser">>

\* C10: a request runs validation, prompt, model call and parser in that
\* order, each at most once; the model is called only after validation and
\* rendering, the parser only on text the model returned, nothing runs after
\* a failed step, and the response exists only once the last step finished.
C10_StrictOrder ==
    \A r \in Conns :
        /\ Len(stages[r]) <= 3 /\ stages[r] = SubSeq(ChainOrder, 1, Len(stages[r]))
        /\ stages[r] # <<>> => ValidGenerate(r)
        /\ pc[r] \in {"idle", "sent", "handler"} => stages[r] = <<>>
        /\ pc[r] = "rendered" => stages[r] = <<"prompt">> /\ prompt[r] # NoPrompt
        /\ pc[r] \in {"waiting", "generated"} => stages[r] = <<"prompt", "llm">>
        /\ pc[r] = "waiting" => modelOut[r] = NoOutcome
        /\ pc[r] \in {"generated", "parsed"} => modelOut[r].kind = "text"
        /\ pc[r] = "parsed" => stages[r] = ChainOrder
        /\ modelOut[r].kind = "error" => stages[r] = <<"prompt", "llm">>
        /\ Len(stages[r]) = 3 => modelOut[r].kind = "text"
        /\ response[r] # NoResponse <=> Responded(r)

\* All three steps ran in order and the 200 went out.
C10_Witness ==
    \E r \in Conns :
        /\ Responded(r)
        /\ stages[r] = ChainOrder
        /\ response[r].status = 200
        /\ response[r].body.bulletpoints = Null

====
